---------------------------- MODULE Spec2Model ----------------------------
(***************************************************************************)
(* Model of two facilities of the HotSpot sources:                         *)
(*                                                                         *)
(*   - opto/mempointer.hpp: MemPointerSummand, MemPointerDecomposedForm,   *)
(*     MemPointerAliasing, the MemPointerDecomposedFormParser and the      *)
(*     MemPointer facade, together with the "MemPointer Lemma" stated in   *)
(*     the header comment;                                                 *)
(*   - nmt/regionsTree.{hpp,cpp}: RegionsTree on top of VMATree.           *)
(*                                                                         *)
(* jint is modelled at IntBits bits instead of 32 (so 1 << 30 becomes      *)
(* 1 << (IntBits - 2), and 2^32 becomes 2^IntBits); every overflow case of *)
(* the 32 bit code has its counterpart at the modelled width.              *)
(***************************************************************************)
EXTENDS Integers, Sequences, FiniteSets, TLC

\* ------------------------------------------------------------------------
\* Widths and program constants
\* ------------------------------------------------------------------------

\* Modelled width of jint, in bits.
IntBits == 6

\* static const int SUMMANDS_SIZE = 10;
SUMMANDS_SIZE == 10

max_jint == 2^(IntBits - 1) - 1
min_jint == -(2^(IntBits - 1))

\* const jint max_distance = 1 << 30;  (two bits below the width of jint)
max_distance == 2^(IntBits - 2)

\* nullptr, as a node identity.
NullNode == 0

\* ------------------------------------------------------------------------
\* NoOverflowInt: a jint that turns into NaN instead of wrapping
\* ------------------------------------------------------------------------

make_NaN == [is_NaN |-> TRUE, value |-> 0]

\* NoOverflowInt(jlong value): NaN unless the value fits a jint.
NoOverflowInt(v) ==
    IF v >= min_jint /\ v <= max_jint
      THEN [is_NaN |-> FALSE, value |-> v]
      ELSE make_NaN

is_zero(a) == ~a.is_NaN /\ a.value = 0

NoiAdd(a, b) ==
    IF a.is_NaN THEN a ELSE IF b.is_NaN THEN b
    ELSE NoOverflowInt(a.value + b.value)

NoiSub(a, b) ==
    IF a.is_NaN THEN a ELSE IF b.is_NaN THEN b
    ELSE NoOverflowInt(a.value - b.value)

NoiMul(a, b) ==
    IF a.is_NaN THEN a ELSE IF b.is_NaN THEN b
    ELSE NoOverflowInt(a.value * b.value)

\* a << b: NaN for a shift outside 0 .. width-1, or a result that does not fit.
NoiShl(a, b) ==
    IF a.is_NaN THEN a ELSE IF b.is_NaN THEN b
    ELSE IF b.value < 0 \/ b.value > IntBits - 1 THEN make_NaN
    ELSE NoOverflowInt(a.value * 2^(b.value))

\* operator==: two values are unequal as soon as one of them is NaN.
NoiEq(a, b) ==
    IF a.is_NaN THEN FALSE ELSE IF b.is_NaN THEN FALSE
    ELSE a.value = b.value

NoiAbs(a) ==
    IF a.is_NaN THEN a ELSE IF a.value >= 0 THEN a
    ELSE NoiSub(NoOverflowInt(0), a)

\* a is a multiple of b (b > 0).
is_multiple_of(a, b) ==
    ~a.is_NaN /\ ~b.is_NaN /\ b.value > 0 /\ a.value % b.value = 0

\* ------------------------------------------------------------------------
\* MemPointerSummand
\* ------------------------------------------------------------------------

\* MemPointerSummand(): no variable, NaN scale.
EmptySummand == [variable |-> NullNode, scale |-> make_NaN]

MemPointerSummand(variable, scale) == [variable |-> variable, scale |-> scale]

\* cmp_for_sort with the sign of the first nullptr case slipped: empty
\* summands then sort first.
cmp_for_sort_null_first(p1, p2) ==
    IF p1.variable = NullNode
      THEN (IF p2.variable = NullNode THEN 0 ELSE -1)
    ELSE IF p2.variable = NullNode THEN 1
    ELSE p1.variable - p2.variable

\* cmp_for_sort: by _idx of the variable, summands without variable last.
cmp_for_sort(p1, p2) ==
    IF p1.variable = NullNode
      THEN (IF p2.variable = NullNode THEN 0 ELSE 1)
    ELSE IF p2.variable = NullNode THEN -1
    ELSE p1.variable - p2.variable

\* operator==(MemPointerSummand, MemPointerSummand), with the check for two
\* empty summands left out: a plausible slip.
SummandEqNoNullCase(a, b) ==
    IF a.variable # b.variable THEN FALSE
    ELSE NoiEq(a.scale, b.scale)

\* operator==(MemPointerSummand, MemPointerSummand), comparing the variables
\* only: a plausible slip.
SummandEqIgnoreScale(a, b) ==
    a.variable = b.variable

\* operator==(MemPointerSummand, MemPointerSummand)
SummandEq(a, b) ==
    IF a.variable = NullNode /\ b.variable = NullNode THEN TRUE
    ELSE IF a.variable # b.variable THEN FALSE
    ELSE NoiEq(a.scale, b.scale)

\* operator!=
SummandNe(a, b) == ~SummandEq(a, b)

\* ------------------------------------------------------------------------
\* MemPointerDecomposedForm
\* ------------------------------------------------------------------------

Slots == 1 .. SUMMANDS_SIZE

\* MemPointerDecomposedForm(): the empty form.
EmptyForm ==
    [pointer |-> NullNode,
     summands |-> [i \in Slots |-> EmptySummand],
     con |-> make_NaN]

\* MemPointerDecomposedForm(Node* pointer) without the initializer of _con,
\* which is then default constructed: NaN.
TrivialFormNaNCon(pointer) ==
    [pointer |-> pointer,
     summands |-> [i \in Slots |->
                     IF i = 1 THEN MemPointerSummand(pointer, NoOverflowInt(1))
                              ELSE EmptySummand],
     con |-> make_NaN]

\* MemPointerDecomposedForm(Node* pointer) without the initializer of
\* _summands[0]: no summand stands for the pointer.
TrivialFormNoSummand(pointer) ==
    [pointer |-> pointer,
     summands |-> [i \in Slots |-> EmptySummand],
     con |-> NoOverflowInt(0)]

\* MemPointerDecomposedForm(Node* pointer): pointer = 0 + 1 * pointer.
TrivialForm(pointer) ==
    [pointer |-> pointer,
     summands |-> [i \in Slots |->
                     IF i = 1 THEN MemPointerSummand(pointer, NoOverflowInt(1))
                              ELSE EmptySummand],
     con |-> NoOverflowInt(0)]

\* The assertions of MemPointerDecomposedForm(pointer, summands, con).
FormAssertsHold(summands, c) ==
    /\ ~c.is_NaN
    /\ Len(summands) <= SUMMANDS_SIZE
    /\ \A i \in 1 .. Len(summands) :
         summands[i].variable # NullNode /\ ~summands[i].scale.is_NaN

\* MemPointerDecomposedForm(pointer, summands, con): copies the summands
\* into the first slots.
FormOf(pointer, summands, c) ==
    [pointer |-> pointer,
     summands |-> [i \in Slots |->
                     IF i <= Len(summands) THEN summands[i] ELSE EmptySummand],
     con |-> c]

\* make, without the capacity check: the summands that fit are kept.
makeTruncating(pointer, summands, c) ==
    FormOf(pointer, summands, c)

\* MemPointerDecomposedForm::make
make(pointer, summands, c) ==
    IF Len(summands) <= SUMMANDS_SIZE
      THEN FormOf(pointer, summands, c)
      ELSE TrivialForm(pointer)

\* Whether make runs the asserting constructor, and its assertions hold.
makeAssertsHold(summands, c) ==
    Len(summands) <= SUMMANDS_SIZE => FormAssertsHold(summands, c)

\* ------------------------------------------------------------------------
\* MemPointerAliasing
\* ------------------------------------------------------------------------

\* The assertion of MemPointerAliasing(aliasing, distance), with the bound
\* one bit too low (1 << 29 for 1 << 30): a plausible slip.
SafeDistanceNarrow(distance) ==
    distance < max_distance \div 2 /\ distance > -(max_distance \div 2)

\* The assertion of MemPointerAliasing(aliasing, distance): "safe distance".
SafeDistance(distance) ==
    distance < max_distance /\ distance > -max_distance

make_unknown == [aliasing |-> "Unknown", distance |-> 0]

make_always(distance) == [aliasing |-> "Always", distance |-> distance]

\* is_always_at_distance, without the test of the distance.
is_always_at_any_distance(a, distance) ==
    a.aliasing = "Always"

\* MemPointerAliasing::is_always_at_distance
is_always_at_distance(a, distance) ==
    a.aliasing = "Always" /\ a.distance = distance

\* ------------------------------------------------------------------------
\* The expression graph (C2 ideal graph nodes) and the stores on it
\* ------------------------------------------------------------------------

VARIABLES conA, conB

\* Values of the two literal nodes the run is free to choose: in and out of
\* the range of jint, and around max_distance.
ConVals ==
    {min_jint, -max_distance, 0, 4, max_distance - 1, max_distance,
     max_jint + 1}

N(op, in1, in2, c) == [op |-> op, in1 |-> in1, in2 |-> in2, con |-> c]

Parm == N("Parm", 0, 0, 0)

\* Node _idx -> node. 1..13 are opaque values (array bases, indices), 14..18
\* literals, the others operators over earlier nodes.
Graph ==
    << Parm, Parm, Parm, Parm, Parm, Parm, Parm, Parm, Parm, Parm,   \* 1..10
       Parm, Parm, Parm,                                             \* 11..13
       N("ConL", 0, 0, conA),          \* 14
       N("ConL", 0, 0, conB),          \* 15
       N("ConL", 0, 0, 16),            \* 16  array base offset
       N("ConI", 0, 0, 1),             \* 17
       N("ConI", 0, 0, 2),             \* 18  shift of a 4 byte element
       N("ConvI2L", 2, 0, 0),          \* 19  (long) i
       N("LShiftL", 19, 18, 0),        \* 20  4 * i
       N("AddP", 1, 20, 0),            \* 21  base + 4 * i
       N("AddP", 21, 16, 0),           \* 22  array[i]
       N("AddI", 2, 17, 0),            \* 23  i + 1 (int)
       N("ConvI2L", 23, 0, 0),         \* 24
       N("LShiftL", 24, 18, 0),        \* 25
       N("AddP", 1, 25, 0),            \* 26
       N("AddP", 26, 16, 0),           \* 27  array[i + 1]
       N("ConvI2L", 3, 0, 0),          \* 28  (long) j
       N("LShiftL", 28, 18, 0),        \* 29  4 * j
       N("AddP", 1, 29, 0),            \* 30
       N("AddP", 30, 16, 0),           \* 31  array[j]
       N("AddP", 4, 29, 0),            \* 32
       N("AddP", 32, 16, 0),           \* 33  array2[j]
       N("AddP", 21, 14, 0),           \* 34  base + 4 * i + conA
       N("AddP", 21, 15, 0),           \* 35  base + 4 * i + conB
       N("AddP", 34, 15, 0),           \* 36  base + 4 * i + conA + conB
       N("AddL", 2, 14, 0),            \* 37  i + conA
       N("MulL", 37, 15, 0),           \* 38  (i + conA) * conB
       N("AddP", 1, 38, 0),            \* 39
       N("SubL", 20, 14, 0),           \* 40  4 * i - conA
       N("AddP", 1, 40, 0),            \* 41
       N("SubL", 3, 3, 0),             \* 42  j - j
       N("AddP", 21, 42, 0),           \* 43  base + 4 * i + (j - j)
       N("MulL", 2, 3, 0),             \* 44  i * j: no constant factor
       N("AddP", 1, 44, 0),            \* 45
       N("MulL", 20, 15, 0),           \* 46  (4 * i) * conB
       N("AddP", 1, 46, 0),            \* 47
       N("AddL", 4, 5, 0),             \* 48
       N("AddL", 48, 6, 0),            \* 49
       N("AddL", 49, 7, 0),            \* 50
       N("AddL", 50, 8, 0),            \* 51
       N("AddL", 51, 9, 0),            \* 52
       N("AddL", 52, 10, 0),           \* 53
       N("AddL", 53, 11, 0),           \* 54
       N("AddL", 54, 12, 0),           \* 55
       N("AddL", 55, 13, 0),           \* 56  10 distinct values
       N("AddP", 1, 56, 0),            \* 57  11 distinct values
       N("AddP", 57, 14, 0),           \* 58  11 distinct values + conA
       N("AddL", 56, 42, 0),           \* 59  10 distinct values + (j - j)
       N("LShiftI", 2, 18, 0),         \* 60  i << 2 (int)
       N("ConvI2L", 60, 0, 0),         \* 61
       N("AddP", 1, 61, 0),            \* 62  base + (long) (i << 2)
       N("LShiftL", 2, 18, 0),         \* 63  4 * i, i a long
       N("LShiftL", 3, 18, 0),         \* 64  4 * j, j a long
       N("AddP", 1, 63, 0),            \* 65  base + 4 * i
       N("AddP", 65, 64, 0),           \* 66  base + 4 * i + 4 * j
       N("AddP", 66, 2, 0),            \* 67  base + 4 * i + 4 * j + i
       N("AddP", 1, 2, 0),             \* 68  base + i
       N("AddP", 68, 63, 0),           \* 69  base + i + 4 * i
       N("AddP", 69, 64, 0)            \* 70  base + i + 4 * i + 4 * j
    >>

Nodes == 1 .. Len(Graph)

is_Con(n) == Graph[n].op \in {"ConI", "ConL"}

\* A store: its address input, memory_size(), the element size of the array
\* its address type names (0: not an array) and is_unsafe_access().
St(adr, size, elem, unsafe) ==
    [adr |-> adr, memory_size |-> size, elem_size |-> elem, unsafe |-> unsafe]

Stores ==
    << St(22, 4, 4, FALSE),    \*  1  array[i] = ..
       St(27, 4, 4, FALSE),    \*  2  array[i + 1] = ..
       St(27, 4, 0, FALSE),    \*  3  the same address, not an array
       St(27, 4, 4, TRUE),     \*  4  unsafe, int[]
       St(27, 8, 8, TRUE),     \*  5  unsafe, long[]
       St(31, 4, 4, FALSE),    \*  6  array[j]
       St(33, 4, 4, FALSE),    \*  7  array2[j]
       St(34, 4, 4, FALSE),    \*  8
       St(35, 2, 4, FALSE),    \*  9
       St(36, 4, 4, FALSE),    \* 10
       St(39, 4, 4, FALSE),    \* 11
       St(41, 4, 4, FALSE),    \* 12
       St(43, 4, 4, FALSE),    \* 13
       St(45, 1, 0, FALSE),    \* 14
       St(47, 4, 4, FALSE),    \* 15
       St(56, 4, 0, FALSE),    \* 16
       St(57, 4, 4, FALSE),    \* 17
       St(58, 4, 4, FALSE),    \* 18
       St(59, 4, 0, FALSE),    \* 19
       St(62, 4, 4, TRUE),     \* 20
       St(21, 4, 4, FALSE),    \* 21
       St(67, 4, 0, FALSE),    \* 22
       St(70, 4, 0, FALSE)     \* 23
    >>

StoreIds == 1 .. Len(Stores)

\* ------------------------------------------------------------------------
\* MemPointerDecomposedFormParser
\* ------------------------------------------------------------------------

VARIABLES
    pc,          \* "idle", "parsing", "done", or the assertion that failed:
                 \* "assert_form" (form constructor), "assert_distance"
    cur,         \* the MemPointer under construction (1 or 2), 0 if none
    mp,          \* the two MemPointers: [mem, decomposed_form]
    con,         \* parser: _con
    worklist,    \* parser: _worklist
    summands,    \* parser: _summands
    aliasing,    \* result of mp[1].decomposed_form.get_aliasing_with(mp[2]..)
    adjacent     \* result of mp[1].is_adjacent_to_and_before(mp[2])

NoMemPointer == [mem |-> 0, decomposed_form |-> EmptyForm]

\* The operations that are never safe to decompose on a 64 bit platform
\* without further knowledge: narrow (int) arithmetic below a ConvI2L.
NarrowOps == {"AddI", "SubI", "MulI", "LShiftI"}

\* The operations that are safe in every case (SAFE1).
Safe1Ops == {"ConI", "ConL", "AddP", "AddL", "SubL", "MulL", "LShiftL", "ConvI2L"}

\* is_safe_to_decompose_op(opc, scale) for the store mem: SAFE1 for pointer
\* width operations and widening; for narrow operations SAFE1 on a range
\* checked array access and SAFE2 on an unsafe access to an array whose
\* element size divides the scale.
is_safe_to_decompose_op(mem, opc, scale) ==
    IF opc \in Safe1Ops THEN TRUE
    ELSE IF opc \notin NarrowOps THEN FALSE
    ELSE IF Stores[mem].elem_size = 0 THEN FALSE
    ELSE IF ~Stores[mem].unsafe THEN TRUE
    ELSE is_multiple_of(scale, NoOverflowInt(Stores[mem].elem_size))

\* A sub-summand is pushed on the worklist, unless its scale is zero: a zero
\* scale contribution is dropped, never stored.
PushSummand(wl, variable, scale) ==
    IF is_zero(scale) THEN wl ELSE Append(wl, MemPointerSummand(variable, scale))

RemoveAt(seq, i) == SubSeq(seq, 1, i - 1) \o SubSeq(seq, i + 1, Len(seq))

\* MergeSummand without the search for an equal variable: a plausible slip,
\* which stores every terminal summand on its own.
MergeSummandAppend(sums, s) == Append(sums, s)

\* A terminal summand is merged into the output: its scale is added to the
\* scale of the summand with the same variable, and the entry is dropped if
\* the combined scale is zero.
MergeSummand(sums, s) ==
    LET same == {i \in 1 .. Len(sums) : sums[i].variable = s.variable}
    IN  IF same = {} THEN Append(sums, s)
        ELSE LET i == CHOOSE i \in same : TRUE
                 scale == NoiAdd(sums[i].scale, s.scale)
             IN  IF is_zero(scale) THEN RemoveAt(sums, i)
                 ELSE [sums EXCEPT ![i] = MemPointerSummand(s.variable, scale)]

\* The factor of a multiplication or shift by the literal node c.
Factor(opc, c) ==
    IF opc \in {"MulL", "MulI"} THEN NoOverflowInt(Graph[c].con)
    ELSE NoiShl(NoOverflowInt(1), NoOverflowInt(Graph[c].con))

\* parse_sub_expression with a slip in the ConvI2L case: the node itself is
\* pushed instead of its input.
parse_sub_expression_same_node(mem, st, summand) ==
    LET n     == summand.variable
        scale == summand.scale
        opc   == Graph[n].op
        a     == Graph[n].in1
        b     == Graph[n].in2
        terminal == [st EXCEPT !.summands = MergeSummand(st.summands, summand)]
    IN  IF ~is_safe_to_decompose_op(mem, opc, scale) THEN terminal
        ELSE IF opc \in {"ConI", "ConL"} THEN
            [st EXCEPT !.con =
               NoiAdd(st.con, NoiMul(scale, NoOverflowInt(Graph[n].con)))]
        ELSE IF opc \in {"AddP", "AddL", "AddI"} THEN
            [st EXCEPT !.worklist =
               PushSummand(PushSummand(st.worklist, a, scale), b, scale)]
        ELSE IF opc \in {"SubL", "SubI"} THEN
            [st EXCEPT !.worklist =
               PushSummand(PushSummand(st.worklist, a, scale), b,
                           NoiMul(NoOverflowInt(-1), scale))]
        ELSE IF opc \in {"MulL", "MulI", "LShiftL", "LShiftI"} THEN
            IF ~is_Con(b) THEN terminal
            ELSE [st EXCEPT !.worklist =
                    PushSummand(st.worklist, a, NoiMul(scale, Factor(opc, b)))]
        ELSE IF opc = "ConvI2L" THEN
            [st EXCEPT !.worklist = PushSummand(st.worklist, n, scale)]
        ELSE terminal

\* parse_sub_expression(summand): the parser state [con, worklist, summands]
\* after the summand (already popped) has been decomposed or found terminal.
parse_sub_expression(mem, st, summand) ==
    LET n     == summand.variable
        scale == summand.scale
        opc   == Graph[n].op
        a     == Graph[n].in1
        b     == Graph[n].in2
        terminal == [st EXCEPT !.summands = MergeSummand(st.summands, summand)]
    IN  IF ~is_safe_to_decompose_op(mem, opc, scale) THEN terminal
        ELSE IF opc \in {"ConI", "ConL"} THEN
            [st EXCEPT !.con =
               NoiAdd(st.con, NoiMul(scale, NoOverflowInt(Graph[n].con)))]
        ELSE IF opc \in {"AddP", "AddL", "AddI"} THEN
            [st EXCEPT !.worklist =
               PushSummand(PushSummand(st.worklist, a, scale), b, scale)]
        ELSE IF opc \in {"SubL", "SubI"} THEN
            [st EXCEPT !.worklist =
               PushSummand(PushSummand(st.worklist, a, scale), b,
                           NoiMul(NoOverflowInt(-1), scale))]
        ELSE IF opc \in {"MulL", "MulI", "LShiftL", "LShiftI"} THEN
            IF ~is_Con(b) THEN terminal
            ELSE [st EXCEPT !.worklist =
                    PushSummand(st.worklist, a, NoiMul(scale, Factor(opc, b)))]
        ELSE IF opc = "ConvI2L" THEN
            [st EXCEPT !.worklist = PushSummand(st.worklist, a, scale)]
        ELSE terminal

\* The form parse_decomposed_form returns once the worklist is empty: the
\* trivial form after an overflow of the constant or of a scale, else make.
ParsedForm(pointer, sums, c) ==
    IF c.is_NaN \/ \E i \in 1 .. Len(sums) : sums[i].scale.is_NaN
      THEN TrivialForm(pointer)
      ELSE make(pointer, sums, c)

\* Whether the assertions met on the way to that form hold: those of the
\* constructor that make runs.
ParseAssertsHold(sums, c) ==
    \/ c.is_NaN
    \/ \E i \in 1 .. Len(sums) : sums[i].scale.is_NaN
    \/ makeAssertsHold(sums, c)

\* ------------------------------------------------------------------------
\* MemPointerDecomposedForm::get_aliasing_with, MemPointer
\* ------------------------------------------------------------------------

RECURSIVE InsertSorted(_, _)
InsertSorted(sorted, s) ==
    IF sorted = << >> THEN << s >>
    ELSE IF cmp_for_sort(s, Head(sorted)) < 0 THEN << s >> \o sorted
    ELSE << Head(sorted) >> \o InsertSorted(Tail(sorted), s)

RECURSIVE SortFrom(_, _)
SortFrom(seq, i) ==
    IF i = 0 THEN << >> ELSE InsertSorted(SortFrom(seq, i - 1), seq[i])

\* The summands of a form, sorted with cmp_for_sort.
SortedSummands(form) == SortFrom(form.summands, SUMMANDS_SIZE)

\* this.get_aliasing_with(other): Unknown unless the sorted summands are
\* pairwise equal and other.con - this.con is valid and below max_distance
\* in absolute value.
get_aliasing_with(this, other) ==
    LET s1 == SortedSummands(this)
        s2 == SortedSummands(other)
        distance == NoiSub(other.con, this.con)
    IN  IF \E i \in Slots : SummandNe(s1[i], s2[i]) THEN make_unknown
        ELSE IF distance.is_NaN THEN make_unknown
        ELSE IF NoiAbs(distance).is_NaN THEN make_unknown
        ELSE IF NoiAbs(distance).value >= max_distance THEN make_unknown
        ELSE make_always(distance.value)

\* self.is_adjacent_to_and_before(other)
is_adjacent_to_and_before(self, other) ==
    is_always_at_distance(
        get_aliasing_with(self.decomposed_form, other.decomposed_form),
        Stores[self.mem].memory_size)

\* ------------------------------------------------------------------------
\* The optimizer's use of the facility, as a state machine
\* ------------------------------------------------------------------------

mpvars == << conA, conB, pc, cur, mp, con, worklist, summands, aliasing, adjacent >>

\* The state of the MemPointer Lemma: two pointers into one memory object.
VARIABLES
    elem_size,    \* array_element_size_in_bytes, 0: the object is no array
    obj_size,     \* size in bytes of the memory object, which starts at 0
    ptr,          \* the values of p1 and p2
    ptr_node,     \* the nodes of p1 and p2 (equal: the same pointer)
    var_a,        \* the value of the one variable of the summands
    lmp           \* mp1 and mp2: [trivial, con, scale]

lemmavars == << elem_size, obj_size, ptr, ptr_node, var_a, lmp >>

\* The state of native memory tracking.
VARIABLES
    tree,        \* the VMATree below the RegionsTree
    visited,     \* visit_committed_regions has run on the tree as it is
    visit_rgn,   \* its argument rgn
    reported,    \* the regions its func has been called with, in order
    rvisited,    \* visit_reserved_regions has run on the tree as it is
    rreported,   \* the regions its func has been called with, in order
    found,       \* << >>, or << addr, find_reserved_region(addr) >>
    before,      \* << >>, or the tree before the latest call, a commit_region
                 \* on a range without committed memory, with the range
    undone       \* the latest call is the uncommit_region of that range

rtvars == << tree, visited, visit_rgn, reported, rvisited, rreported, found,
             before, undone >>

\* The callers of one sub-model leave the variables of the others alone.
MPOnly == UNCHANGED << lemmavars, rtvars >>
LemmaOnly == UNCHANGED << mpvars, rtvars >>
RTOnly == UNCHANGED << mpvars, lemmavars >>

MPInit ==
    /\ conA \in ConVals
    /\ conB \in ConVals
    /\ pc = "idle"
    /\ cur = 0
    /\ mp = [k \in 1 .. 2 |-> NoMemPointer]
    /\ con = make_NaN
    /\ worklist = << >>
    /\ summands = << >>
    /\ aliasing = make_unknown
    /\ adjacent = FALSE

\* MemPointer(mem): init_decomposed_form constructs a parser, whose
\* constructor sets _con to 0 and starts parse_decomposed_form with the
\* trivial summand on the worklist.
NewMemPointer(k, m) ==
    /\ pc = "idle"
    /\ mp[k].mem = 0
    /\ k = 1 \/ mp[1].mem # 0
    /\ cur' = k
    /\ mp' = [mp EXCEPT ![k].mem = m]
    /\ con' = NoOverflowInt(0)
    /\ worklist' = << MemPointerSummand(Stores[m].adr, NoOverflowInt(1)) >>
    /\ summands' = << >>
    /\ pc' = "parsing"
    /\ UNCHANGED << conA, conB, aliasing, adjacent >>
    /\ MPOnly

\* One round of the loop of parse_decomposed_form:
\* parse_sub_expression(_worklist.pop()).
ParseSubExpression ==
    /\ pc = "parsing"
    /\ worklist # << >>
    /\ LET summand == worklist[Len(worklist)]
           st == [con |-> con,
                  worklist |-> SubSeq(worklist, 1, Len(worklist) - 1),
                  summands |-> summands]
           next == parse_sub_expression(mp[cur].mem, st, summand)
       IN  /\ con' = next.con
           /\ worklist' = next.worklist
           /\ summands' = next.summands
    /\ UNCHANGED << conA, conB, pc, cur, mp, aliasing, adjacent >>
    /\ MPOnly

\* The worklist is empty: the form is built and the MemPointer is complete.
\* A violated assertion of the form's constructor ends the run.
ParseFinish ==
    /\ pc = "parsing"
    /\ worklist = << >>
    /\ LET pointer == Stores[mp[cur].mem].adr
           form == ParsedForm(pointer, summands, con)
       IN  IF ParseAssertsHold(summands, con)
             THEN /\ mp' = [mp EXCEPT ![cur].decomposed_form = form]
                  /\ pc' = "idle"
             ELSE /\ mp' = mp
                  /\ pc' = "assert_form"
    /\ cur' = 0
    /\ con' = make_NaN
    /\ summands' = << >>
    /\ UNCHANGED << conA, conB, worklist, aliasing, adjacent >>
    /\ MPOnly

\* The optimizer asks for the aliasing of the two MemPointers and whether
\* the first is adjacent to and before the second.
Compare ==
    /\ pc = "idle"
    /\ mp[1].mem # 0
    /\ mp[2].mem # 0
    /\ LET a == get_aliasing_with(mp[1].decomposed_form, mp[2].decomposed_form)
       IN  IF a.aliasing = "Always" /\ ~SafeDistance(a.distance)
             THEN /\ pc' = "assert_distance"
                  /\ UNCHANGED << aliasing, adjacent >>
             ELSE /\ pc' = "done"
                  /\ aliasing' = a
                  /\ adjacent' = is_adjacent_to_and_before(mp[1], mp[2])
    /\ UNCHANGED << conA, conB, cur, mp, con, worklist, summands >>
    /\ MPOnly

MPNext ==
    \/ \E k \in 1 .. 2, m \in StoreIds : NewMemPointer(k, m)
    \/ ParseSubExpression
    \/ ParseFinish
    \/ Compare

\* ------------------------------------------------------------------------
\* The MemPointer Lemma (header comment of mempointer.hpp)
\*
\* Two pointers p1, p2 into one address space, and their MemPointers mp1,
\* mp2, each reached from the trivial form 0 + 1 * p by decompositions that
\* are safe by the definition of the comment.  The narrow integer has
\* LemmaBits bits here, so the 2^32 of the comment is 2^LemmaBits and its
\* 2^31 is 2^(LemmaBits - 1).
\* ------------------------------------------------------------------------

\* Modelled width of the narrow integer of the lemma, in bits.
LemmaBits == 3

\* The element sizes of the arrays considered.
ElemSizes == {1, 2}

\* max_possible_array_size_in_bytes <= array_element_size_in_bytes * 2^31
MaxArraySize(es) == es * 2^(LemmaBits - 1)

\* Pointers in the bounds of an object of the given size, and one past it.
PtrVals(size) == 0 .. size

LemmaCons == -(2 * 2^LemmaBits) .. (2 * 2^LemmaBits)

LemmaScales == {0, 1}

\* pointer = 0 + 1 * pointer
LemmaTrivial == [trivial |-> TRUE, con |-> 0, scale |-> 0]

\* mp = con + sum(summands), for the MemPointer of pointer k.
MpValue(f, k) ==
    IF f.trivial THEN ptr[k] ELSE f.con + f.scale * var_a

\* The summands of the MemPointer of pointer k.
LemmaSummands(f, k) ==
    IF f.trivial THEN {<< "pointer", ptr_node[k], 1 >>}
    ELSE IF f.scale = 0 THEN {}
    ELSE {<< "a", 0, f.scale >>}

\* SAFE1: mp_i = mp_{i+1}, compared at the values the variables have.
SAFE1(mp_i, mp_next) == mp_i = mp_next

\* SAFE2 without the element size in the multiple: a plausible slip.
SAFE2NoElemSize(mp_i, mp_next, x) ==
    /\ elem_size # 0
    /\ mp_i = mp_next + x * 2^LemmaBits

\* SAFE2: the pointer is on an array with a known element size, and there
\* is an integer x with mp_i = mp_{i+1} + x * element size * 2^32.
SAFE2(mp_i, mp_next, x) ==
    /\ elem_size # 0
    /\ mp_i = mp_next + x * elem_size * 2^LemmaBits

LemmaInit ==
    /\ elem_size \in {0} \cup ElemSizes
    /\ obj_size \in (IF elem_size = 0 THEN {2^LemmaBits}
                     ELSE {elem_size, MaxArraySize(elem_size)})
    /\ ptr_node \in {<< 1, 1 >>, << 1, 2 >>}
    /\ ptr \in [1 .. 2 -> PtrVals(obj_size)]
    /\ ptr_node[1] = ptr_node[2] => ptr[1] = ptr[2]
    /\ var_a \in {3}
    /\ lmp = [k \in 1 .. 2 |-> LemmaTrivial]

\* A decomposition of mp_k that is safe by SAFE1.
DecomposeSafe1(k) ==
    /\ \E c \in LemmaCons, s \in LemmaScales :
         LET new == [trivial |-> FALSE, con |-> c, scale |-> s]
         IN  /\ new # lmp[k]
             /\ SAFE1(MpValue(lmp[k], k), MpValue(new, k))
             /\ lmp' = [lmp EXCEPT ![k] = new]
    /\ UNCHANGED << elem_size, obj_size, ptr, ptr_node, var_a >>
    /\ LemmaOnly

\* A decomposition of mp_k that is safe by SAFE2, with x # 0.
DecomposeSafe2(k) ==
    /\ \E c \in LemmaCons, s \in LemmaScales, x \in {-1, 1} :
         LET new == [trivial |-> FALSE, con |-> c, scale |-> s]
         IN  /\ SAFE2(MpValue(lmp[k], k), MpValue(new, k), x)
             /\ lmp' = [lmp EXCEPT ![k] = new]
    /\ UNCHANGED << elem_size, obj_size, ptr, ptr_node, var_a >>
    /\ LemmaOnly

LemmaNext ==
    \/ \E k \in 1 .. 2 : DecomposeSafe1(k)
    \/ \E k \in 1 .. 2 : DecomposeSafe2(k)

\* ------------------------------------------------------------------------
\* VMATree: the state of every address, with a node wherever it changes
\* ------------------------------------------------------------------------

\* Addresses are 0 .. MaxAddr - 1, node positions 0 .. MaxAddr.
MaxAddr == 5

\* VMATree::StateType, a bit field: bit 0 reserved, bit 1 committed.
Released == 0
Reserved == 1
Committed == 3

Addrs == 0 .. (MaxAddr - 1)

\* Call stacks, by their index in the NativeCallStackStorage: "invalid" is
\* no stack, "ncs0" the empty stack.
CommitStacks == {"ncs1", "ncs2"}

\* VMATree::empty_regiondata, in the state of released memory.
ReleasedState == [type |-> Released, tag |-> "mtNone", stack |-> "invalid"]

EmptyTree == [a \in Addrs |-> ReleasedState]

StateAt(t, a) == IF a \in Addrs THEN t[a] ELSE ReleasedState

\* The tree holds a node at every position where the state changes, with
\* the state before (in) and after (out) the position.
NodeKeys(t) == {p \in 0 .. MaxAddr : StateAt(t, p - 1) # StateAt(t, p)}

TreapNode(t, p) == [key |-> p, in |-> StateAt(t, p - 1), out |-> StateAt(t, p)]

\* VMATree::register_mapping(A, B, state, metadata): [A, B) takes the state.
register_mapping(t, A, B, state, metadata) ==
    [a \in Addrs |->
       IF a >= A /\ a < B
         THEN [type |-> state, tag |-> metadata.tag, stack |-> metadata.stack]
         ELSE t[a]]

RECURSIVE SortedSeq(_)
SortedSeq(S) ==
    IF S = {} THEN << >>
    ELSE LET m == CHOOSE x \in S : \A y \in S : x <= y
         IN  << m >> \o SortedSeq(S \ {m})

\* visit_in_order: the nodes in ascending order of position.
visit_in_order(t) ==
    LET keys == SortedSeq(NodeKeys(t))
    IN  [i \in 1 .. Len(keys) |-> TreapNode(t, keys[i])]

\* visit_range_in_order(from, to): the nodes with from <= position < to.
visit_range_in_order(t, from, to) ==
    LET keys == SortedSeq({p \in NodeKeys(t) : p >= from /\ p < to})
    IN  [i \in 1 .. Len(keys) |-> TreapNode(t, keys[i])]

\* ------------------------------------------------------------------------
\* RegionsTree
\* ------------------------------------------------------------------------

\* NodeHelper
position(node) == node.key

\* ((uint8_t)out_state() & (uint8_t)Committed) >= 2
is_committed_begin(node) == (node.out.type % 4) >= 2

\* is_released_begin on in_state() for out_state(): a plausible slip.
is_released_begin_in_state(node) == node.in.type = Released

\* out_state() == VMATree::StateType::Released
is_released_begin(node) == node.out.type = Released

out_flag(node) == node.out.tag

distance_from(node, other) == position(node) - position(other)

\* A NodeHelper is << >> (no node: not valid) or << node >>.
is_valid(helper) == helper # << >>

\* RegionsTree::make_region_data
make_region_data(ncs, flag) == [stack |-> ncs, tag |-> flag]

\* RegionsTree::stack: the out stack of the node, the empty stack if none.
stack(node) == IF node.out.stack = "invalid" THEN "ncs0" ELSE node.out.stack

\* ReservedMemoryRegion(), ReservedMemoryRegion(base, size, stack, tag)
NoReservedRegion == [base |-> 0, size |-> 0, stack |-> "ncs0", tag |-> "mtNone"]

ReservedMemoryRegion(base, size, st, tag) ==
    [base |-> base, size |-> size, stack |-> st, tag |-> tag]

CommittedMemoryRegion(base, size, st) ==
    [base |-> base, size |-> size, stack |-> st]

contain_address(rgn, addr) == addr >= rgn.base /\ addr < rgn.base + rgn.size

\* The body of the lambda of visit_committed_regions, for the node
\* nodes[i]; func returns true for every region.  st holds the locals
\* comm_size, base and prev, and the regions func was called with.
RECURSIVE VisitCommittedFrom(_, _, _)
VisitCommittedFrom(nodes, i, st) ==
    IF i > Len(nodes) THEN st
    ELSE
      LET curr == nodes[i]
          prev == IF is_valid(st.prev) THEN st.prev[1] ELSE curr
          base1 == IF is_valid(st.prev) THEN position(prev) ELSE st.base
          inrun == is_valid(st.prev) /\ is_committed_begin(prev)
          size1 == IF inrun THEN st.comm_size + distance_from(curr, prev)
                            ELSE st.comm_size
          call == inrun /\ ~is_committed_begin(curr)
      IN  VisitCommittedFrom(nodes, i + 1,
            [base |-> base1,
             comm_size |-> IF call THEN 0 ELSE size1,
             prev |-> << curr >>,
             out |-> IF call
                       THEN Append(st.out,
                              CommittedMemoryRegion(base1, size1, stack(curr)))
                       ELSE st.out])

\* RegionsTree::visit_committed_regions(rgn, func): the regions func is
\* called with, in the order of the calls.
visit_committed_regions(t, rgn) ==
    LET start == rgn.base
        end == rgn.base + rgn.size
    IN  VisitCommittedFrom(visit_range_in_order(t, start, end), 1,
          [base |-> start, comm_size |-> 0, prev |-> << >>, out |-> << >>]).out

\* The body of the lambda of visit_reserved_regions, for the node nodes[i].
\* find is [on |-> TRUE, addr |-> a] for the func of find_reserved_region,
\* which returns false on the region that contains a, and [on |-> FALSE]
\* for a func that returns true for every region.  st holds the locals
\* begin_node, prev and rgn_size, and the regions func was called with.
RECURSIVE VisitReservedFrom(_, _, _, _)
VisitReservedFrom(nodes, i, st, find) ==
    IF i > Len(nodes) THEN st
    ELSE
      LET curr == nodes[i]
          size1 == IF is_valid(st.prev)
                     THEN st.rgn_size + distance_from(curr, st.prev[1])
                     ELSE 0
          begin1 == IF is_valid(st.prev) THEN st.begin_node ELSE << curr >>
          bound == \/ is_released_begin(curr)
                   \/ out_flag(begin1[1]) # out_flag(curr)
          rmr == ReservedMemoryRegion(position(begin1[1]), size1, stack(curr),
                                      out_flag(begin1[1]))
      IN  IF ~bound THEN
            VisitReservedFrom(nodes, i + 1,
              [begin_node |-> begin1, prev |-> << curr >>,
               rgn_size |-> size1, out |-> st.out], find)
          ELSE IF size1 = 0 THEN
            VisitReservedFrom(nodes, i + 1,
              [begin_node |-> begin1, prev |-> << >>,
               rgn_size |-> size1, out |-> st.out], find)
          ELSE IF find.on /\ contain_address(rmr, find.addr) THEN
            [st EXCEPT !.out = Append(st.out, rmr)]
          ELSE IF ~is_released_begin(curr) THEN
            VisitReservedFrom(nodes, i + 1,
              [begin_node |-> << curr >>, prev |-> << curr >>,
               rgn_size |-> 0, out |-> Append(st.out, rmr)], find)
          ELSE
            VisitReservedFrom(nodes, i + 1,
              [begin_node |-> << >>, prev |-> << >>,
               rgn_size |-> 0, out |-> Append(st.out, rmr)], find)

\* RegionsTree::visit_reserved_regions(func): the regions func is called
\* with, in the order of the calls.
visit_reserved_regions(t, find) ==
    VisitReservedFrom(visit_in_order(t), 1,
      [begin_node |-> << >>, prev |-> << >>, rgn_size |-> 0, out |-> << >>],
      find).out

\* find_reserved_region with a contain_region that takes the first region
\* it is called with, whatever its range: a plausible slip.
find_reserved_region_first(t, addr) ==
    LET seen == visit_reserved_regions(t, [on |-> FALSE, addr |-> addr])
    IN  IF seen # << >> THEN seen[1] ELSE NoReservedRegion

\* RegionsTree::find_reserved_region(addr)
find_reserved_region(t, addr) ==
    LET seen == visit_reserved_regions(t, [on |-> TRUE, addr |-> addr])
    IN  IF seen # << >> /\ contain_address(seen[Len(seen)], addr)
          THEN seen[Len(seen)]
          ELSE NoReservedRegion

\* RegionsTree::commit_region(addr, size, stack)
commit_region(t, addr, size, ncs) ==
    LET rgn == find_reserved_region(t, addr)
    IN  register_mapping(t, addr, addr + size, Committed,
                         make_region_data(ncs, rgn.tag))

\* uncommit_region without the search for the reserved region, with the
\* tag of no region: a plausible slip.
uncommit_region_no_tag(t, addr, size) ==
    register_mapping(t, addr, addr + size, Reserved,
                     make_region_data("ncs0", "mtNone"))

\* RegionsTree::uncommit_region(addr, size)
uncommit_region(t, addr, size) ==
    LET rgn == find_reserved_region(t, addr)
    IN  register_mapping(t, addr, addr + size, Reserved,
                         make_region_data("ncs0", rgn.tag))

RTInit ==
    /\ tree = EmptyTree
    /\ visited = FALSE
    /\ visit_rgn = NoReservedRegion
    /\ reported = << >>
    /\ rvisited = FALSE
    /\ rreported = << >>
    /\ found = << >>
    /\ before = << >>
    /\ undone = FALSE

\* The latest call is no commit_region that an uncommit_region may undo.
NoRoundTrip ==
    /\ before' = << >>
    /\ undone' = FALSE

\* The variables hold what the latest visit or search has reported, until
\* the tree changes.
ForgetVisits ==
    /\ visited' = FALSE
    /\ visit_rgn' = NoReservedRegion
    /\ reported' = << >>
    /\ rvisited' = FALSE
    /\ rreported' = << >>
    /\ found' = << >>

\* rt.reserve_mapping(base, size, make_region_data(ncs, mtTest)) on
\* released memory.
ReserveMapping(base, size) ==
    /\ base + size <= MaxAddr
    /\ \A a \in base .. (base + size - 1) : tree[a].type = Released
    /\ tree' = register_mapping(tree, base, base + size, Reserved,
                                make_region_data("ncs0", "mtTest"))
    /\ ForgetVisits
    /\ NoRoundTrip
    /\ RTOnly

\* The reserved regions of the tree: the maximal ranges of memory that is
\* not released and has one tag.
ReservedRegions(t) ==
    {ReservedMemoryRegion(b, e - b, "ncs0", t[b].tag) :
       << b, e >> \in
         {r \in (Addrs \X (1 .. MaxAddr)) :
            /\ r[1] < r[2]
            /\ \A a \in r[1] .. (r[2] - 1) :
                 t[a].type # Released /\ t[a].tag = t[r[1]].tag
            /\ StateAt(t, r[1] - 1).type = Released
               \/ StateAt(t, r[1] - 1).tag # t[r[1]].tag
            /\ StateAt(t, r[2]).type = Released
               \/ StateAt(t, r[2]).tag # t[r[1]].tag}}

\* rt.commit_region(addr, size, stack) on a sub-range of a reserved region.
CommitRegion(addr, size, ncs) ==
    /\ addr + size <= MaxAddr
    /\ \A a \in addr .. (addr + size - 1) :
         tree[a].type # Released /\ tree[a].tag = tree[addr].tag
    /\ tree' = commit_region(tree, addr, size, ncs)
    /\ before' =
         IF \A a \in addr .. (addr + size - 1) : tree[a].type # Committed
           THEN << [tree |-> tree, addr |-> addr, size |-> size] >>
           ELSE << >>
    /\ undone' = FALSE
    /\ ForgetVisits
    /\ RTOnly

\* rt.uncommit_region(addr, size) on a sub-range of a reserved region.
UncommitRegion(addr, size) ==
    /\ addr + size <= MaxAddr
    /\ \A a \in addr .. (addr + size - 1) :
         tree[a].type # Released /\ tree[a].tag = tree[addr].tag
    /\ tree' = uncommit_region(tree, addr, size)
    /\ IF /\ before # << >>
          /\ ~undone
          /\ before[1].addr = addr
          /\ before[1].size = size
         THEN undone' = TRUE /\ before' = before
         ELSE NoRoundTrip
    /\ ForgetVisits
    /\ RTOnly

\* rt.visit_committed_regions(rgn, func) for a reserved region of the tree,
\* with a func that records the region and returns true.
VisitCommittedRegions(rgn) ==
    /\ ~visited
    /\ visited' = TRUE
    /\ visit_rgn' = rgn
    /\ reported' = visit_committed_regions(tree, rgn)
    /\ rvisited' = FALSE
    /\ rreported' = << >>
    /\ found' = << >>
    /\ NoRoundTrip
    /\ UNCHANGED tree
    /\ RTOnly

\* rt.visit_reserved_regions(func), with a func that records the region
\* and returns true.
VisitReservedRegions ==
    /\ ~rvisited
    /\ rvisited' = TRUE
    /\ rreported' = visit_reserved_regions(tree, [on |-> FALSE, addr |-> 0])
    /\ visited' = FALSE
    /\ visit_rgn' = NoReservedRegion
    /\ reported' = << >>
    /\ found' = << >>
    /\ NoRoundTrip
    /\ UNCHANGED tree
    /\ RTOnly

\* rt.find_reserved_region(addr)
FindReservedRegion(addr) ==
    /\ found = << >>
    /\ found' = << addr, find_reserved_region(tree, addr) >>
    /\ visited' = FALSE
    /\ visit_rgn' = NoReservedRegion
    /\ reported' = << >>
    /\ rvisited' = FALSE
    /\ rreported' = << >>
    /\ NoRoundTrip
    /\ UNCHANGED tree
    /\ RTOnly

RTNext ==
    \/ \E base \in Addrs, size \in 1 .. MaxAddr : ReserveMapping(base, size)
    \/ \E addr \in Addrs, size \in 1 .. MaxAddr, ncs \in CommitStacks :
         CommitRegion(addr, size, ncs)
    \/ \E addr \in Addrs, size \in 1 .. MaxAddr : UncommitRegion(addr, size)
    \/ \E rgn \in ReservedRegions(tree) : VisitCommittedRegions(rgn)
    \/ VisitReservedRegions
    \/ \E addr \in Addrs : FindReservedRegion(addr)

\* The parser alone: one MemPointer is constructed.
ParseNext ==
    \/ \E m \in StoreIds : NewMemPointer(1, m)
    \/ ParseSubExpression
    \/ ParseFinish

vars == << mpvars, lemmavars, rtvars >>

\* The variables of the model of the lemma, at rest.
LemmaIdle ==
    /\ elem_size = 0
    /\ obj_size = 0
    /\ ptr = << 0, 0 >>
    /\ ptr_node = << 1, 1 >>
    /\ var_a = 0
    /\ lmp = << LemmaTrivial, LemmaTrivial >>

\* The variables of the parser and the comparison, at rest.
MPIdle ==
    /\ conA = 0
    /\ conB = 0
    /\ pc = "idle"
    /\ cur = 0
    /\ mp = [k \in 1 .. 2 |-> NoMemPointer]
    /\ con = make_NaN
    /\ worklist = << >>
    /\ summands = << >>
    /\ aliasing = make_unknown
    /\ adjacent = FALSE

\* The optimizer parses two stores and compares them.
Init == MPInit /\ LemmaIdle /\ RTInit

Spec == Init /\ [][MPNext]_vars

\* Safe decompositions of two pointers.
InitLemma == LemmaInit /\ MPIdle /\ RTInit

SpecLemma == InitLemma /\ [][LemmaNext]_vars

\* Native memory tracking: reservations, commits and visits of one tree.
InitRT == RTInit /\ MPIdle /\ LemmaIdle

SpecRT == InitRT /\ [][RTNext]_vars

\* parse_decomposed_form runs to completion on its thread: the loop takes
\* its next round, and the function returns, whenever it can.
SpecParse ==
    /\ Init
    /\ [][ParseNext]_vars
    /\ WF_vars(ParseSubExpression)
    /\ WF_vars(ParseFinish)

\* ------------------------------------------------------------------------
\* Properties of the comparison of two decomposed forms
\* ------------------------------------------------------------------------

FormA == mp[1].decomposed_form
FormB == mp[2].decomposed_form

\* The summands of a form, as a collection of (term, scale) pairs.
SummandSet(form) ==
    {<< form.summands[i].variable, form.summands[i].scale >> :
       i \in {j \in Slots : form.summands[j].variable # NullNode}}

NumSummands(form) ==
    Cardinality({j \in Slots : form.summands[j].variable # NullNode})

SameSummands(A, B) ==
    SummandSet(A) = SummandSet(B) /\ NumSummands(A) = NumSummands(B)

ValidCons(A, B) == ~A.con.is_NaN /\ ~B.con.is_NaN

\* The mathematical difference of the two constants.
ConDiff(A, B) == B.con.value - A.con.value

AbsInt(x) == IF x < 0 THEN -x ELSE x

\* C2: two forms with identical summand collections and valid constants
\* whose difference d = B.con - A.con has abs(d) < max_distance compare as
\* Always(d).
C2_SameSummandsAlways ==
    (/\ pc = "done"
     /\ SameSummands(FormA, FormB)
     /\ ValidCons(FormA, FormB)
     /\ AbsInt(ConDiff(FormA, FormB)) < max_distance)
    => aliasing = [aliasing |-> "Always", distance |-> ConDiff(FormA, FormB)]

\* C2 witness: array[i] (constant 16) against array[i + 1] (constant 20)
\* has been compared, as Always(4).
C2_Witness ==
    /\ pc = "done"
    /\ mp[1].mem = 1 /\ mp[2].mem = 2
    /\ FormA.con.value = 16 /\ FormB.con.value = 20
    /\ SameSummands(FormA, FormB)
    /\ aliasing = [aliasing |-> "Always", distance |-> 4]

\* C3: two forms whose summand collections differ compare as Unknown,
\* whatever their constants.
C3_DifferentSummandsUnknown ==
    (pc = "done" /\ ~SameSummands(FormA, FormB))
    => aliasing.aliasing = "Unknown"

\* C3 witness: the same term with a different scale (4 * i against
\* conB * i), with equal constants, has been compared.
C3_Witness ==
    /\ pc = "done"
    /\ \E i, j \in Slots :
         /\ FormA.summands[i].variable # NullNode
         /\ FormA.summands[i].variable = FormB.summands[j].variable
         /\ FormA.summands[i].scale.value # FormB.summands[j].scale.value
    /\ NumSummands(FormA) = NumSummands(FormB)
    /\ ValidCons(FormA, FormB) /\ ConDiff(FormA, FormB) = 0
    /\ aliasing.aliasing = "Unknown"

\* C4: no Always verdict with abs(distance) >= max_distance is ever made:
\* the assertion of the verdict's constructor holds for each comparison,
\* and forms with equal summands whose constant difference overflows or
\* has abs >= max_distance compare as Unknown.
C4_DistanceAlwaysSafe ==
    /\ pc # "assert_distance"
    /\ pc = "done" =>
         /\ aliasing.distance < max_distance
         /\ aliasing.distance > -max_distance
         /\ (/\ SameSummands(FormA, FormB)
             /\ ValidCons(FormA, FormB)
             /\ AbsInt(ConDiff(FormA, FormB)) >= max_distance)
            => aliasing.aliasing = "Unknown"

\* C4 witness: equal summands, and a constant difference that overflows
\* jint, have been compared as Unknown.
C4_Witness ==
    /\ pc = "done"
    /\ SameSummands(FormA, FormB)
    /\ ValidCons(FormA, FormB)
    /\ ConDiff(FormA, FormB) > max_jint
    /\ aliasing.aliasing = "Unknown"

\* The byte width of the access of mp[k].
AccessSize(k) == Stores[mp[k].mem].memory_size

IsTrivial(form, pointer) ==
    /\ form.pointer = pointer
    /\ form.con = [is_NaN |-> FALSE, value |-> 0]
    /\ form.summands[1] =
         [variable |-> pointer, scale |-> [is_NaN |-> FALSE, value |-> 1]]
    /\ \A i \in Slots \ {1} :
         form.summands[i] =
           [variable |-> NullNode, scale |-> [is_NaN |-> TRUE, value |-> 0]]

\* The parser has decomposed everything and is about to return.
AtReturn == pc = "parsing" /\ worklist = << >>

CurPointer == Stores[mp[cur].mem].adr

\* C6: when the decomposition has yielded more than SUMMANDS_SIZE terminal
\* summands, the form returned is exactly the trivial form.
C6_OverCapacityTrivial ==
    [][(AtReturn /\ Len(summands) > SUMMANDS_SIZE)
         => /\ pc' = "idle"
            /\ IsTrivial(mp'[cur].decomposed_form, CurPointer)]_vars

\* C6 witness: the expression with 11 distinct terminal values and the
\* literal conA has been parsed, into the trivial form.
C6_Witness ==
    /\ pc = "idle"
    /\ mp[1].mem = 18
    /\ conA = 4
    /\ IsTrivial(FormA, 58)

\* Every non-empty summand of the form has a valid scale, and its constant
\* is valid.
ValidForm(form) ==
    /\ ~form.con.is_NaN
    /\ \A i \in Slots :
         form.summands[i].variable # NullNode => ~form.summands[i].scale.is_NaN

\* The constant or a scale has overflowed during the parse.
Overflowed ==
    con.is_NaN \/ \E i \in 1 .. Len(summands) : summands[i].scale.is_NaN

\* C7: every form the parser returns has a valid constant and valid scales
\* in its non-empty summands; after an overflow of the constant or of a
\* scale the form is the trivial form; the assertions of the form's
\* constructor are never violated.
C7_NoNaNInForm ==
    [][AtReturn
         => /\ pc' = "idle"
            /\ ValidForm(mp'[cur].decomposed_form)
            /\ Overflowed => IsTrivial(mp'[cur].decomposed_form, CurPointer)]_vars

\* C7 witness: base + 4 * i + conA, with conA beyond the range of jint, has
\* been parsed into the trivial form.
C7_Witness ==
    /\ pc = "idle"
    /\ mp[1].mem = 8
    /\ conA > max_jint
    /\ IsTrivial(FormA, 34)

\* The number of nodes of the expression below n, n included (with
\* multiplicity: the size of the expression as a tree).
RECURSIVE ExprSize(_)
ExprSize(n) ==
    IF n = NullNode THEN 0
    ELSE 1 + ExprSize(Graph[n].in1) + ExprSize(Graph[n].in2)

RECURSIVE WorkSize(_)
WorkSize(wl) ==
    IF wl = << >> THEN 0
    ELSE ExprSize(Head(wl).variable) + WorkSize(Tail(wl))

\* C8: each round of the loop pops one summand and pushes only summands
\* over smaller subexpressions, so the size of the worklist's expressions
\* strictly decreases; the parse, once started, returns a form normally.
C8_ParseTerminates ==
    /\ [][(pc = "parsing" /\ pc' = "parsing")
            => WorkSize(worklist') < WorkSize(worklist)]_vars
    /\ (pc = "parsing") ~> (pc = "idle" /\ mp[1].decomposed_form # EmptyForm)

\* C8 witness: the parse of an expression over capacity that also has a
\* literal out of range has returned.
C8_Witness ==
    /\ pc = "idle"
    /\ mp[1].mem = 18
    /\ conA > max_jint
    /\ mp[1].decomposed_form # EmptyForm

S1 == \A k \in 1 .. 2 : ptr[k] >= 0 /\ ptr[k] < obj_size

\* S2: abs(mp1.con - mp2.con) < 2^31
S2 == AbsInt(lmp[1].con - lmp[2].con) < 2^(LemmaBits - 1)

\* S3: all summands of mp1 and mp2 are identical.
S3 == LemmaSummands(lmp[1], 1) = LemmaSummands(lmp[2], 2)

\* The x with p = mp + x * array_element_size_in_bytes * 2^32: the
\* overflows of the narrow arithmetic that the decomposition has dropped.
DroppedOverflow(k) == ptr[k] - MpValue(lmp[k], k)

\* C1 (MemPointer Lemma): if p1 and p2 are in the bounds of the same memory
\* object (S1), abs(mp1.con - mp2.con) < 2^31 (S2) and the summands of mp1
\* and mp2 are identical (S3), then p1 - p2 = mp1.con - mp2.con, whatever
\* safe decompositions led to mp1 and mp2.
C1_MemPointerLemma ==
    (S1 /\ S2 /\ S3) => ptr[1] - ptr[2] = lmp[1].con - lmp[2].con

\* C1 witness: S1, S2 and S3 hold for two different pointers whose
\* decompositions both dropped an overflow of the narrow arithmetic.
C1_Witness ==
    /\ S1 /\ S2 /\ S3
    /\ ptr[1] # ptr[2]
    /\ ~lmp[1].trivial /\ ~lmp[2].trivial
    /\ DroppedOverflow(1) # 0
    /\ DroppedOverflow(2) # 0
    /\ ptr[1] - ptr[2] = lmp[1].con - lmp[2].con

\* ------------------------------------------------------------------------
\* Visits of the committed regions
\* ------------------------------------------------------------------------

\* The bytes of a region.
Bytes(r) == r.base .. (r.base + r.size - 1)

\* The committed bytes of a reserved region.
CommittedBytes(t, rgn) == {a \in Bytes(rgn) : t[a].type = Committed}

\* The committed ranges of a reserved region: its maximal ranges [b, e) of
\* committed memory with one call stack.
CommittedRanges(t, rgn) ==
    {r \in ((0 .. MaxAddr) \X (0 .. MaxAddr)) :
       /\ r[1] < r[2]
       /\ r[1] .. (r[2] - 1) \subseteq CommittedBytes(t, rgn)
       /\ \A a \in r[1] .. (r[2] - 1) : t[a].stack = t[r[1]].stack
       /\ \/ r[1] - 1 \notin CommittedBytes(t, rgn)
          \/ StateAt(t, r[1] - 1).stack # t[r[1]].stack
       /\ \/ r[2] \notin CommittedBytes(t, rgn)
          \/ StateAt(t, r[2]).stack # t[r[1]].stack}

\* No committed range begins where another one ends.
NonAdjacentRanges(t, rgn) ==
    \A r1, r2 \in CommittedRanges(t, rgn) : r1[2] # r2[1]

\* C10: the regions that visit_committed_regions calls func with are in
\* ascending address order and pairwise disjoint, each consists of
\* committed memory only, their union is the committed bytes of the
\* reserved region, and when the committed ranges are pairwise non-adjacent
\* func is called once per range, with its base and size.
C10_VisitReportsCommitted ==
    visited =>
      /\ \A i, j \in 1 .. Len(reported) :
           i < j => reported[i].base + reported[i].size <= reported[j].base
      /\ \A i \in 1 .. Len(reported) :
           /\ reported[i].size > 0
           /\ Bytes(reported[i]) \subseteq CommittedBytes(tree, visit_rgn)
      /\ UNION {Bytes(reported[i]) : i \in 1 .. Len(reported)}
           = CommittedBytes(tree, visit_rgn)
      /\ NonAdjacentRanges(tree, visit_rgn) =>
           /\ Len(reported) = Cardinality(CommittedRanges(tree, visit_rgn))
           /\ {<< reported[i].base, reported[i].base + reported[i].size >> :
                 i \in 1 .. Len(reported)} = CommittedRanges(tree, visit_rgn)

\* The visit of a reserved region that holds two committed ranges with
\* different call stacks, the second beginning where the first ends, has
\* called func with a region that reaches beyond the committed memory.
C10_AdjacentRangesMisreported ==
    /\ visited
    /\ ~NonAdjacentRanges(tree, visit_rgn)
    /\ \E i \in 1 .. Len(reported) :
         ~(Bytes(reported[i]) \subseteq CommittedBytes(tree, visit_rgn))

\* The visit of a reserved region whose committed memory lies strictly
\* inside it, in ranges that are pairwise non-adjacent, has called func
\* once per range with its base and size.
C10_InteriorRangesReported ==
    /\ visited
    /\ Cardinality(CommittedRanges(tree, visit_rgn)) = 2
    /\ NonAdjacentRanges(tree, visit_rgn)
    /\ {<< reported[i].base, reported[i].base + reported[i].size >> :
          i \in 1 .. Len(reported)} = CommittedRanges(tree, visit_rgn)

\* ------------------------------------------------------------------------
\* Searches and visits of the reserved regions
\* ------------------------------------------------------------------------

\* Only reserve_mapping has been called: no memory is committed.
OnlyReserved(t) == \A a \in Addrs : t[a].type # Committed

\* Base and size of a region.
Extent(r) == << r.base, r.size >>

\* C11: when the tree holds reserved regions that are pairwise disjoint and
\* non-adjacent, find_reserved_region(addr) for an address in one of them
\* returns the region with the base and size of that one.
C11_FindReservedRegion ==
    (found # << >> /\ OnlyReserved(tree)) =>
      \A rgn \in ReservedRegions(tree) :
        contain_address(rgn, found[1]) => Extent(found[2]) = Extent(rgn)

\* C11 witness: three reserved regions, and the search for an address of
\* the second has returned the second.
C11_Witness ==
    /\ found # << >>
    /\ OnlyReserved(tree)
    /\ Cardinality(ReservedRegions(tree)) = 3
    /\ contain_address(found[2], found[1])
    /\ \E r1, r2 \in ReservedRegions(tree) :
         r1.base < found[2].base /\ found[2].base < r2.base

\* C12: when the tree holds reserved regions that are pairwise disjoint and
\* non-adjacent, visit_reserved_regions calls func once per region, in
\* ascending address order, with the base and size of the region; no
\* released gap is reported or added to a region.
C12_VisitReservedRegions ==
    (rvisited /\ OnlyReserved(tree)) =>
      /\ Len(rreported) = Cardinality(ReservedRegions(tree))
      /\ {Extent(rreported[i]) : i \in 1 .. Len(rreported)}
           = {Extent(rgn) : rgn \in ReservedRegions(tree)}
      /\ \A i, j \in 1 .. Len(rreported) :
           i < j => rreported[i].base + rreported[i].size < rreported[j].base

\* C12 witness: the visit of a tree with two reserved regions of different
\* sizes and a gap of two released bytes between them.
C12_Witness ==
    /\ rvisited
    /\ OnlyReserved(tree)
    /\ Len(rreported) = 2
    /\ rreported[1].size # rreported[2].size
    /\ rreported[2].base = rreported[1].base + rreported[1].size + 2

\* ------------------------------------------------------------------------
\* The summands of a returned form
\* ------------------------------------------------------------------------

\* The terminal contributions of the expression n taken scale times, one
\* by one and not combined: what the decomposition of the pointer of the
\* store mem arrives at, whatever the order of the worklist.
RECURSIVE Contributions(_, _, _)
Contributions(mem, n, scale) ==
    LET opc == Graph[n].op
        a   == Graph[n].in1
        b   == Graph[n].in2
    IN  IF is_zero(scale) THEN << >>
        ELSE IF ~is_safe_to_decompose_op(mem, opc, scale)
          THEN << MemPointerSummand(n, scale) >>
        ELSE IF opc \in {"ConI", "ConL"} THEN << >>
        ELSE IF opc \in {"AddP", "AddL", "AddI"} THEN
            Contributions(mem, a, scale) \o Contributions(mem, b, scale)
        ELSE IF opc \in {"SubL", "SubI"} THEN
            Contributions(mem, a, scale)
              \o Contributions(mem, b, NoiMul(NoOverflowInt(-1), scale))
        ELSE IF opc \in {"MulL", "MulI", "LShiftL", "LShiftI"} THEN
            IF ~is_Con(b) THEN << MemPointerSummand(n, scale) >>
            ELSE Contributions(mem, a, NoiMul(scale, Factor(opc, b)))
        ELSE IF opc = "ConvI2L" THEN Contributions(mem, a, scale)
        ELSE << MemPointerSummand(n, scale) >>

RECURSIVE SumScales(_, _, _)
SumScales(contribs, term, i) ==
    IF i > Len(contribs) THEN 0
    ELSE (IF contribs[i].variable = term THEN contribs[i].scale.value ELSE 0)
           + SumScales(contribs, term, i + 1)

\* The scale of a term in a form, 0 if the form has no summand for it.
ScaleOf(form, term) ==
    IF \E i \in Slots : form.summands[i].variable = term
      THEN LET i == CHOOSE i \in Slots : form.summands[i].variable = term
           IN  form.summands[i].scale.value
      ELSE 0

\* The form has a summand for the term.
HasTerm(form, term) == \E i \in Slots : form.summands[i].variable = term

\* The MemPointers whose form has been returned.
Returned == {k \in 1 .. 2 : mp[k].decomposed_form # EmptyForm}

\* The MemPointer whose form the parser has returned last.
JustReturned == {k \in Returned : k + 1 \notin Returned}

\* C13: when the parser returns, the form it returns has no
\* non-empty summand with scale zero and no two non-empty summands with the
\* same term; unless it is the trivial form, the scale of a term is the sum
\* of the scales of the contributions to the term, and a term whose sum is
\* zero has no summand.
C13_NoZeroScaleNoDuplicate ==
    pc = "idle" => \A k \in JustReturned :
      LET form == mp[k].decomposed_form
          contribs == Contributions(mp[k].mem, Stores[mp[k].mem].adr,
                                    NoOverflowInt(1))
          terms == {contribs[i].variable : i \in 1 .. Len(contribs)}
      IN  /\ \A i \in Slots :
               form.summands[i].variable # NullNode
                 => /\ ~form.summands[i].scale.is_NaN
                    /\ form.summands[i].scale.value # 0
          /\ \A i, j \in Slots :
               (i # j /\ form.summands[i].variable # NullNode)
                 => form.summands[i].variable # form.summands[j].variable
          /\ ~IsTrivial(form, Stores[mp[k].mem].adr) =>
               /\ \A i \in Slots :
                    form.summands[i].variable # NullNode
                      => form.summands[i].variable \in terms
               /\ \A t \in terms :
                    /\ ScaleOf(form, t) = SumScales(contribs, t, 1)
                    /\ HasTerm(form, t) <=> SumScales(contribs, t, 1) # 0

\* C13 witness: base + 4 * i + (j - j) has been parsed into a form with no
\* summand for j, and base + 4 * i + 4 * j + i into a form where i has
\* scale 5; the parser has just returned the second.
C13_Witness ==
    /\ pc = "idle"
    /\ Returned = {1, 2}
    /\ mp[1].mem = 13
    /\ ~HasTerm(FormA, 3)
    /\ NumSummands(FormA) = 2
    /\ mp[2].mem = 22
    /\ ScaleOf(FormB, 2) = 5
    /\ NumSummands(FormB) = 3

\* ------------------------------------------------------------------------
\* The value of a form and the value of its pointer
\* ------------------------------------------------------------------------

\* The width of a pointer in bits: twice the width of jint.
PtrBits == 2 * IntBits

PtrMod == 2^PtrBits

\* The operations of pointer width arithmetic and the leaves.
WideOps == {"Parm", "ConI", "ConL", "AddP", "AddL", "SubL", "MulL", "LShiftL"}

\* The expression n of the graph g is built from pointer width arithmetic
\* only, with no conversion from narrow to wide.
RECURSIVE WideOnly(_, _)
WideOnly(g, n) ==
    \/ n = NullNode
    \/ /\ g[n].op \in WideOps
       /\ WideOnly(g, g[n].in1)
       /\ WideOnly(g, g[n].in2)

\* Assignments of values to the leaves that are no literals: the leaf n
\* has the value ValueOf(v, n).
Assignments == [a : {0, 1}, b : {0, 3, PtrMod - 1}, c : {0, 5}]

ValueOf(v, n) == (v.a * n * n + v.b * n + v.c) % PtrMod

\* The value of the expression n of the graph g under the assignment v,
\* in wrapping arithmetic of pointer width.
RECURSIVE Eval(_, _, _)
Eval(g, n, v) ==
    LET opc == g[n].op
        a   == g[n].in1
        b   == g[n].in2
    IN  IF opc = "Parm" THEN ValueOf(v, n)
        ELSE IF opc \in {"ConI", "ConL"} THEN g[n].con % PtrMod
        ELSE IF opc \in {"AddP", "AddL"}
          THEN (Eval(g, a, v) + Eval(g, b, v)) % PtrMod
        ELSE IF opc = "SubL" THEN (Eval(g, a, v) - Eval(g, b, v)) % PtrMod
        ELSE IF opc = "MulL" THEN (Eval(g, a, v) * Eval(g, b, v)) % PtrMod
        ELSE (Eval(g, a, v) * 2^(Eval(g, b, v) % PtrBits)) % PtrMod

RECURSIVE SumTerms(_, _, _, _)
SumTerms(g, form, v, i) ==
    IF i > SUMMANDS_SIZE THEN 0
    ELSE (IF form.summands[i].variable = NullNode THEN 0
          ELSE form.summands[i].scale.value
                 * Eval(g, form.summands[i].variable, v))
           + SumTerms(g, form, v, i + 1)

\* constant + sum(scale_i * term_i), in wrapping arithmetic of pointer
\* width.
FormValue(g, form, v) == (form.con.value + SumTerms(g, form, v, 1)) % PtrMod

\* C14 (SAFE1 exactness): when the parser returns the form of a pointer
\* built from pointer width arithmetic only, then under every assignment
\* of values to the terms constant + sum(scale_i * term_i) is the value of
\* the pointer, in wrapping arithmetic of pointer width; also for the
\* trivial form.
C14_Safe1Exact ==
    pc = "idle" => \A k \in JustReturned :
      LET form == mp[k].decomposed_form
          pointer == Stores[mp[k].mem].adr
          g == Graph
      IN  WideOnly(g, pointer) =>
            /\ ValidForm(form)
            /\ \A v \in Assignments :
                 FormValue(g, form, v) = Eval(g, pointer, v)

\* C14 witness: base + (i + conA) * conB with conA * conB # 0 has been
\* parsed into a form with the constant conA * conB, and the sum of eleven
\* values into the trivial form; there are assignments under which the
\* first wraps around.
C14_Witness ==
    /\ pc = "idle"
    /\ Returned = {1, 2}
    /\ mp[1].mem = 11
    /\ ~IsTrivial(FormA, Stores[11].adr)
    /\ FormA.con.value = conA * conB
    /\ conA * conB # 0
    /\ \E v \in Assignments :
         ValueOf(v, 1) + (ValueOf(v, 2) + conA) * conB >= PtrMod
    /\ mp[2].mem = 17
    /\ IsTrivial(FormB, Stores[17].adr)

\* ------------------------------------------------------------------------
\* The order of the summands
\* ------------------------------------------------------------------------

\* The summands are in ascending order of term index, the empty ones last.
IsSorted(sums) ==
    \A i, j \in 1 .. Len(sums) :
      i < j =>
        \/ sums[j].variable = NullNode
        \/ sums[i].variable # NullNode /\ sums[i].variable <= sums[j].variable

\* The sorted summands of a form are its summands, in some order.
IsPermutation(form, sums) ==
    /\ Len(sums) = SUMMANDS_SIZE
    /\ \A i \in Slots :
         Cardinality({j \in Slots : sums[j] = form.summands[i]})
           = Cardinality({j \in Slots : form.summands[j] = form.summands[i]})

\* The two forms hold their summands in different slots.
DifferentOrder(A, B) == \E i \in Slots : A.summands[i] # B.summands[i]

\* C15: the comparison orders the summands of each form by term index with
\* the empty summands last, and two forms that hold the same (term, scale)
\* summands in different slots, with valid constants differing by d and
\* abs(d) < max_distance, compare as Always(d).
C15_OrderIndependent ==
    pc = "done" =>
      /\ \A form \in {FormA, FormB} :
           /\ IsSorted(SortedSummands(form))
           /\ IsPermutation(form, SortedSummands(form))
      /\ (/\ SameSummands(FormA, FormB)
          /\ DifferentOrder(FormA, FormB)
          /\ ValidCons(FormA, FormB)
          /\ AbsInt(ConDiff(FormA, FormB)) < max_distance)
         => /\ aliasing.aliasing = "Always"
            /\ aliasing.distance = ConDiff(FormA, FormB)

\* C15 witness: base + 4 * i + 4 * j + i against base + i + 4 * i + 4 * j:
\* the same three summands, produced in different orders, compared as
\* Always(0).
C15_Witness ==
    /\ pc = "done"
    /\ mp[1].mem = 22 /\ mp[2].mem = 23
    /\ NumSummands(FormA) = 3
    /\ SameSummands(FormA, FormB)
    /\ DifferentOrder(FormA, FormB)
    /\ aliasing = [aliasing |-> "Always", distance |-> 0]

\* ------------------------------------------------------------------------
\* Commit and uncommit of one range
\* ------------------------------------------------------------------------

\* What visit_reserved_regions reports: base, size and tag of each region.
ReservedReport(t) ==
    LET seen == visit_reserved_regions(t, [on |-> FALSE, addr |-> 0])
    IN  [i \in 1 .. Len(seen) |-> << seen[i].base, seen[i].size, seen[i].tag >>]

\* What visit_committed_regions reports for a reserved region: base and
\* size of each region.
CommittedReport(t, rgn) ==
    LET seen == visit_committed_regions(t, rgn)
    IN  [i \in 1 .. Len(seen) |-> << seen[i].base, seen[i].size >>]

\* C16: after commit_region on a range that lies in one reserved region
\* and holds no committed memory, followed by uncommit_region on the same
\* range, visit_reserved_regions and visit_committed_regions report what
\* they reported before the commit.
C16_CommitUncommitRoundTrip ==
    undone =>
      /\ ReservedReport(tree) = ReservedReport(before[1].tree)
      /\ \A rgn \in ReservedRegions(before[1].tree) :
           CommittedReport(tree, rgn) = CommittedReport(before[1].tree, rgn)

\* C16 witness: the middle of a reserved region that holds committed memory
\* elsewhere has been committed and uncommitted again, and the visits
\* report one reserved region and one committed region, as before.
C16_Witness ==
    /\ undone
    /\ Len(ReservedReport(tree)) = 1
    /\ \E rgn \in ReservedRegions(tree) :
         /\ before[1].addr > rgn.base + 1
         /\ before[1].addr + before[1].size < rgn.base + rgn.size
         /\ Len(CommittedReport(tree, rgn)) = 1
         /\ CommittedReport(tree, rgn) = CommittedReport(before[1].tree, rgn)

=============================================================================
